---- MODULE Spec2Model ----
(***************************************************************************)
(* Model of src/src/day24.rs: the four-register ALU, its concrete         *)
(* executor (State::execute / State::do_input over an Environment), the   *)
(* breadcrumb lattice, the symbolic forward pass (SymbolicState) and the  *)
(* drivers compute_symbolic / find_answer / part1 / part2.                *)
(*                                                                         *)
(* Values are Rust i64.  Every program of the model keeps all values far  *)
(* inside the i64 range, so no arithmetic here can overflow.              *)
(***************************************************************************)
EXTENDS Integers, Sequences, FiniteSets, TLC

\* ------------------------------------------------------------------ bounds
\* Longest instruction body of a generated one-input program.
MaxBody == 2
\* Longest breadcrumb drawn for the lattice specification.
MaxCrumbLen == 2

\* --------------------------------------------------------------- registers
\* Register::index
W == 1
X == 2
Y == 3
Z == 4
\* Register::SIZE
SIZE == 4
Registers == 1..SIZE

\* The digits an Input may take: (1 ..= 9)
MinDigit == 1
MaxDigit == 9
Digits == MinDigit..MaxDigit

Null == "null"

\* An Option: None, or Some(x)
None == <<>>
Some(x) == <<x>>
The(option) == option[1]

\* ---------------------------------------------------------------- operands
\* Operand::Value / Operand::Register
Value(i) == [kind |-> "value", val |-> i, reg |-> W]
Reg(r) == [kind |-> "register", val |-> 0, reg |-> r]

\* ------------------------------------------------------------ instructions
\* enum Operation.  Every instruction carries the same fields; id is used by
\* Input and Equal only, opd by the binary instructions only.
Operation(op, id, reg, opd) == [op |-> op, id |-> id, reg |-> reg, opd |-> opd]

\* How many of the first n statements of lines have opcode op.
RECURSIVE CountOp(_, _, _)
CountOp(lines, n, op) ==
  IF n = 0 THEN 0
  ELSE CountOp(lines, n - 1, op) + (IF lines[n][1] = op THEN 1 ELSE 0)

\* Operation::parse: a statement is <<opcode, register>> or
\* <<opcode, register, operand>>; Input and Equal instructions are numbered
\* separately, from 0, in order of appearance.
Parse(lines) ==
  [i \in 1..Len(lines) |->
     LET l == lines[i] IN
     IF l[1] = "inp" THEN Operation("inp", CountOp(lines, i - 1, "inp"), l[2], Value(0))
     ELSE IF l[1] = "eql" THEN Operation("eql", CountOp(lines, i - 1, "eql"), l[2], l[3])
     ELSE Operation(l[1], 0, l[2], l[3])]

\* Number of Input / Equal instructions of a program.
RECURSIVE NumOps(_, _, _)
NumOps(prog, n, op) ==
  IF n = 0 THEN 0
  ELSE NumOps(prog, n - 1, op) + (IF prog[n].op = op THEN 1 ELSE 0)
NumInputs(prog) == NumOps(prog, Len(prog), "inp")
NumEquals(prog) == NumOps(prog, Len(prog), "eql")

\* -------------------------------------------------------------- arithmetic
Abs(a) == IF a < 0 THEN -a ELSE a
\* i64 `/`: the quotient truncated toward zero (b # 0).
TruncDiv(a, b) ==
  LET q == Abs(a) \div Abs(b) IN IF (a < 0) = (b < 0) THEN q ELSE -q
\* i64 `%`: the remainder with the sign of the dividend (b # 0).
TruncRem(a, b) == a - b * TruncDiv(a, b)

\* `/` and `%` panic ("attempt to divide by zero") on a zero right operand.
DivideByZero(op, r) == op \in {"div", "mod"} /\ r = 0

\* Whether a match arm of State::execute panics.
Panics(op, l, r) == DivideByZero(op, r)

\* Result with the Modulo arm dividing, as the arm above it does.
ResultModuloDivides(op, l, r) ==
  CASE op = "add" -> l + r
    [] op = "mul" -> l * r
    [] op = "div" -> TruncDiv(l, r)
    [] op = "mod" -> TruncDiv(l, r)
    [] op = "eql" -> IF l = r THEN 1 ELSE 0

\* The result of a binary instruction: the match arms of State::execute.
Result(op, l, r) ==
  CASE op = "add" -> l + r
    [] op = "mul" -> l * r
    [] op = "div" -> TruncDiv(l, r)
    [] op = "mod" -> TruncRem(l, r)
    [] op = "eql" -> IF l = r THEN 1 ELSE 0

\* total_val with do_equals taking every pair for equal.
TotalValAlwaysEqual(op, left_val, right_val) ==
  CASE op = "add" -> left_val + right_val
    [] op = "mul" -> left_val * right_val
    [] op = "div" -> TruncDiv(left_val, right_val)
    [] op = "mod" -> TruncRem(left_val, right_val)
    [] op = "eql" -> 1

\* The total_val of SymbolicState::do_add, do_multiply, do_divide,
\* do_modulo and do_equals.
TotalVal(op, left_val, right_val) ==
  CASE op = "add" -> left_val + right_val
    [] op = "mul" -> left_val * right_val
    [] op = "div" -> TruncDiv(left_val, right_val)
    [] op = "mod" -> TruncRem(left_val, right_val)
    [] op = "eql" -> IF left_val = right_val THEN 1 ELSE 0

\* ----------------------------------------------------------------- lattice
\* enum SymbolicBoolean
SymbolicBoolean == {"ANY", "TRUE", "FALSE", "INVALID"}

\* SymbolicBoolean::or without its test of other against INVALID.
SymOrOneSided(a, b) ==
  IF a = b THEN a
  ELSE IF a = "INVALID" THEN b
  ELSE "ANY"

\* SymbolicBoolean::or
SymOr(a, b) ==
  IF a = b THEN a
  ELSE IF a = "INVALID" THEN b
  ELSE IF b = "INVALID" THEN a
  ELSE "ANY"

\* SymbolicBoolean::and with the last arm of SymbolicBoolean::or.
SymAndConflictIsAny(a, b) ==
  IF a = b THEN a
  ELSE IF a = "ANY" THEN b
  ELSE IF b = "ANY" THEN a
  ELSE "ANY"

\* SymbolicBoolean::and with the tests of SymbolicBoolean::or.
SymAndYieldsToInvalid(a, b) ==
  IF a = b THEN a
  ELSE IF a = "INVALID" THEN b
  ELSE IF b = "INVALID" THEN a
  ELSE "INVALID"

\* SymbolicBoolean::and returning self whenever one side is ANY.
SymAndKeepsSelf(a, b) ==
  IF a = b THEN a
  ELSE IF a = "ANY" THEN a
  ELSE IF b = "ANY" THEN a
  ELSE "INVALID"

\* SymbolicBoolean::and
SymAnd(a, b) ==
  IF a = b THEN a
  ELSE IF a = "ANY" THEN b
  ELSE IF b = "ANY" THEN a
  ELSE "INVALID"

\* SymbolicBoolean::get_single with INVALID taken for FALSE.
GetSingleInvalidIsFalse(v) ==
  CASE v = "TRUE" -> "Some(true)"
    [] v \in {"FALSE", "INVALID"} -> "Some(false)"
    [] OTHER -> "None"

\* SymbolicBoolean::get_single, an Option<bool>
GetSingle(v) ==
  CASE v = "TRUE" -> "Some(true)"
    [] v = "FALSE" -> "Some(false)"
    [] OTHER -> "None"

\* ------------------------------------------------------------- breadcrumbs
\* A BreadCrumb is its crumbs vector; position k of the code is k + 1 here.
\* BreadCrumb::init
BreadCrumbInit == <<>>

Min(a, b) == IF a < b THEN a ELSE b
Max(a, b) == IF a < b THEN b ELSE a

\* BreadCrumb::set with the two outcomes exchanged.
BreadCrumbSetInverted(crumbs, equal_idx, value) ==
  LET padded == [i \in 1..Max(Len(crumbs), equal_idx + 1) |->
                   IF i <= Len(crumbs) THEN crumbs[i] ELSE "ANY"]
  IN [padded EXCEPT ![equal_idx + 1] = IF value THEN "FALSE" ELSE "TRUE"]

\* BreadCrumb::set storing TRUE whatever the value.
BreadCrumbSetAlwaysTrue(crumbs, equal_idx, value) ==
  LET padded == [i \in 1..Max(Len(crumbs), equal_idx + 1) |->
                   IF i <= Len(crumbs) THEN crumbs[i] ELSE "ANY"]
  IN [padded EXCEPT ![equal_idx + 1] = "TRUE"]

\* BreadCrumb::set
BreadCrumbSet(crumbs, equal_idx, value) ==
  LET padded == [i \in 1..Max(Len(crumbs), equal_idx + 1) |->
                   IF i <= Len(crumbs) THEN crumbs[i] ELSE "ANY"]
  IN [padded EXCEPT ![equal_idx + 1] = IF value THEN "TRUE" ELSE "FALSE"]

\* BreadCrumb::or without its loop over the extra values in self.
BreadCrumbOrKeepsExtras(self, other) ==
  LET both == Min(Len(self), Len(other)) IN
  [i \in 1..Max(Len(self), Len(other)) |->
     IF i <= both THEN SymOr(self[i], other[i])
     ELSE IF i <= Len(self) THEN self[i]
     ELSE SymOr("ANY", other[i])]

\* BreadCrumb::or pushing the extra values of other as they are.
BreadCrumbOrCopiesExtras(self, other) ==
  LET both == Min(Len(self), Len(other)) IN
  [i \in 1..Max(Len(self), Len(other)) |->
     IF i <= both THEN SymOr(self[i], other[i])
     ELSE IF i <= Len(self) THEN SymOr("ANY", self[i])
     ELSE other[i]]

\* BreadCrumb::or
BreadCrumbOr(self, other) ==
  LET both == Min(Len(self), Len(other)) IN
  [i \in 1..Max(Len(self), Len(other)) |->
     IF i <= both THEN SymOr(self[i], other[i])
     ELSE IF i <= Len(self) THEN SymOr("ANY", self[i])
     ELSE SymOr("ANY", other[i])]

\* BreadCrumb::and without its loop over the extra values of other.
BreadCrumbAndKeepsLength(self, other) ==
  LET both == Min(Len(self), Len(other)) IN
  [i \in 1..Len(self) |->
     IF i <= both THEN SymAnd(self[i], other[i]) ELSE self[i]]

\* BreadCrumb::and
BreadCrumbAnd(self, other) ==
  LET both == Min(Len(self), Len(other)) IN
  [i \in 1..Max(Len(self), Len(other)) |->
     IF i <= both THEN SymAnd(self[i], other[i])
     ELSE IF i <= Len(self) THEN self[i]
     ELSE other[i]]

\* BreadCrumb::get_constraint
GetConstraint(crumbs) == [i \in 1..Len(crumbs) |-> GetSingle(crumbs[i])]

\* --------------------------------------------------------- symbolic values
\* A SymbolicValue is its values map: a function from the concrete values to
\* their breadcrumbs.
\* SymbolicValue::literal
Literal(x) == x :> BreadCrumbInit

\* SymbolicValue::values (the keys; the code sorts them)
Values(sv) == DOMAIN sv

\* SymbolicState::do_input over the half-open range (1 .. 9).
SymDoInputHalfOpen == [v \in MinDigit..(MaxDigit - 1) |-> BreadCrumbInit]

\* SymbolicState::do_input
SymDoInput == [v \in Digits |-> BreadCrumbInit]

\* total_descr with do_multiply taking and on every pair, as do_add does.
TotalDescrAlwaysAnd(op, left_val, left_descr, right_val, right_descr) ==
  IF op \in {"div", "mod"} THEN
    IF left_val # 0 THEN BreadCrumbAnd(left_descr, right_descr) ELSE left_descr
  ELSE BreadCrumbAnd(left_descr, right_descr)

\* The breadcrumb of one (left, right) pair: total_descr of do_add,
\* do_multiply, do_divide, do_modulo and do_equals before the merge.
TotalDescr(op, left_val, left_descr, right_val, right_descr) ==
  IF op = "mul" THEN
    IF left_val = 0 /\ right_val = 0 THEN BreadCrumbOr(left_descr, right_descr)
    ELSE IF left_val = 0 THEN left_descr
    ELSE IF right_val = 0 THEN right_descr
    ELSE BreadCrumbAnd(left_descr, right_descr)
  ELSE IF op \in {"div", "mod"} THEN
    IF left_val # 0 THEN BreadCrumbAnd(left_descr, right_descr) ELSE left_descr
  ELSE BreadCrumbAnd(left_descr, right_descr)

\* The match on result.values.get_mut(&total_val) inserting in both arms.
MergeOverwrites(result, total_val, total_descr) ==
  IF total_val \in DOMAIN result
  THEN [result EXCEPT ![total_val] = total_descr]
  ELSE result @@ (total_val :> total_descr)

\* The match on result.values.get_mut(&total_val): or into the breadcrumb
\* already stored for the value, or insert.
Merge(result, total_val, total_descr) ==
  IF total_val \in DOMAIN result
  THEN [result EXCEPT ![total_val] = BreadCrumbOr(@, total_descr)]
  ELSE result @@ (total_val :> total_descr)

\* The keys of a map in increasing order.  (The code iterates its HashMaps
\* in their own order; the model fixes one.)
SortedSeq(S) ==
  [i \in 1..Cardinality(S) |-> CHOOSE x \in S : Cardinality({y \in S : y < x}) = i - 1]

\* The body of the two nested loops over left.values and right.values for
\* pair number n (pairs numbered row by row, 0-based).
Pair(op, left, right, ls, rs, n, result) ==
  LET left_val == ls[(n \div Len(rs)) + 1]
      right_val == rs[(n % Len(rs)) + 1]
  IN Merge(result, TotalVal(op, left_val, right_val),
           TotalDescr(op, left_val, left[left_val], right_val, right[right_val]))

\* The loops over the pairs lo..hi, in order, from the map built so far.
\* (The range is halved only to keep the evaluation shallow: every pair is
\* still merged after all the pairs before it.)
RECURSIVE Pairs(_, _, _, _, _, _, _, _)
Pairs(op, left, right, ls, rs, lo, hi, result) ==
  IF lo > hi THEN result
  ELSE IF lo = hi THEN Pair(op, left, right, ls, rs, lo, result)
  ELSE LET mid == (lo + hi) \div 2
           first == Pairs(op, left, right, ls, rs, lo, mid, result)
       IN \* the test only makes TLC finish the first half before the second
          IF DOMAIN first = {} THEN first
          ELSE Pairs(op, left, right, ls, rs, mid + 1, hi, first)

\* A binary do_*: the result map of all (left, right) pairs.
SymBinary(op, left, right) ==
  LET ls == SortedSeq(DOMAIN left)
      rs == SortedSeq(DOMAIN right)
  IN Pairs(op, left, right, ls, rs, 0, Len(ls) * Len(rs) - 1, <<>>)

\* SymbolicState::do_equals: the pairs, then the comparison's own outcome
\* stamped into every resulting breadcrumb.
SymDoEquals(id, left, right) ==
  LET result == SymBinary("eql", left, right)
  IN [val \in DOMAIN result |-> BreadCrumbSet(result[val], id, val = 1)]

\* do_divide / do_modulo evaluate left_val / right_val for every pair: a zero
\* right value panics the forward pass.
SymPanics(op, left, right) ==
  \E l \in DOMAIN left, r \in DOMAIN right : DivideByZero(op, r)

\* SymbolicState::default
SymbolicStateDefault == [pc |-> 0, register |-> [r \in Registers |-> Literal(0)]]

\* SymbolicState::get_value
SymGetValue(sym, opd) ==
  IF opd.kind = "register" THEN sym.register[opd.reg] ELSE Literal(opd.val)

\* The register value an instruction produces: the match of
\* SymbolicState::evaluate.
SymResult(sym, stmt) ==
  IF stmt.op = "inp" THEN SymDoInput
  ELSE IF stmt.op = "eql"
       THEN SymDoEquals(stmt.id, sym.register[stmt.reg], SymGetValue(sym, stmt.opd))
       ELSE SymBinary(stmt.op, sym.register[stmt.reg], SymGetValue(sym, stmt.opd))

\* Whether evaluating the instruction panics.
SymStmtPanics(sym, stmt) ==
  stmt.op # "inp" /\ SymPanics(stmt.op, sym.register[stmt.reg], SymGetValue(sym, stmt.opd))

\* One step of SymbolicState::evaluate that drops the value it computed.
SymEvaluateKeepsRegister(sym, stmt) ==
  [pc |-> sym.pc + 1, register |-> sym.register]

\* One step of SymbolicState::evaluate.
SymEvaluate(sym, stmt) ==
  [pc |-> sym.pc + 1, register |-> [sym.register EXCEPT ![stmt.reg] = SymResult(sym, stmt)]]


\* ---------------------------------------------------------- concrete state
\* State::default
StateDefault == [register |-> [r \in Registers |-> 0], inputs |-> <<>>, pc |-> 0]

\* State::get_value
GetValue(state, opd) ==
  IF opd.kind = "register" THEN state.register[opd.reg] ELSE opd.val

\* ------------------------------------------------------------ environments
\* SimpleEnvironment{inputs} and ConstrainedEnvironment{constraint, is_descending}
SimpleEnvironment(inputs) ==
  [kind |-> "simple", inputs |-> inputs, constraint |-> <<>>, is_descending |-> FALSE]
ConstrainedEnvironment(constraint, is_descending) ==
  [kind |-> "constrained", inputs |-> <<>>, constraint |-> constraint,
   is_descending |-> is_descending]
NoEnvironment == [kind |-> "none", inputs |-> <<>>, constraint |-> <<>>, is_descending |-> FALSE]

\* (1..=9).rev() and (1..=9)
Descending == [i \in 1..(MaxDigit - MinDigit + 1) |-> MaxDigit + 1 - i]
Ascending == [i \in 1..(MaxDigit - MinDigit + 1) |-> MinDigit - 1 + i]

\* Environment::get_input with the two orders exchanged.
GetInputExchanged(e, id) ==
  IF e.kind = "simple"
  THEN IF id < Len(e.inputs) THEN <<e.inputs[id + 1]>> ELSE <<>>
  ELSE IF e.is_descending THEN Ascending ELSE Descending

\* Environment::get_input with is_descending ignored.
GetInputAscendingOnly(e, id) ==
  IF e.kind = "simple"
  THEN IF id < Len(e.inputs) THEN <<e.inputs[id + 1]>> ELSE <<>>
  ELSE Ascending

\* Environment::get_input
GetInput(e, id) ==
  IF e.kind = "simple"
  THEN IF id < Len(e.inputs) THEN <<e.inputs[id + 1]>> ELSE <<>>
  ELSE IF e.is_descending THEN Descending ELSE Ascending

\* Environment::should_abandon that never abandons.
ShouldAbandonNever(e, op, result) == FALSE

\* Environment::should_abandon with required == (result == 1) for its test.
ShouldAbandonOnAgreement(e, op, result) ==
  /\ e.kind = "constrained"
  /\ op.op = "eql"
  /\ op.id < Len(e.constraint)
  /\ e.constraint[op.id + 1] # "None"
  /\ (e.constraint[op.id + 1] = "Some(true)") = (result = 1)

\* Environment::should_abandon
ShouldAbandon(e, op, result) ==
  /\ e.kind = "constrained"
  /\ op.op = "eql"
  /\ op.id < Len(e.constraint)
  /\ e.constraint[op.id + 1] # "None"
  /\ (e.constraint[op.id + 1] = "Some(true)") # (result = 1)

\* Environment::can_finish that accepts every final state.
CanFinishAlways(e, state) == TRUE

\* Environment::can_finish
CanFinish(e, state) ==
  IF e.kind = "simple" THEN TRUE ELSE state.register[Z] = 0

\* child_state without child_state.inputs.push(input).
ChildStateNoPush(state, reg, input) ==
  [register |-> [state.register EXCEPT ![reg] = input],
   inputs |-> state.inputs,
   pc |-> state.pc + 1]

\* The child state of one candidate digit: the clone, push and assignments
\* of State::do_input.
ChildState(state, reg, input) ==
  [register |-> [state.register EXCEPT ![reg] = input],
   inputs |-> Append(state.inputs, input),
   pc |-> state.pc + 1]

\* One activation of State::execute: its state and, while it waits in
\* do_input for a child, the candidates not yet tried.
Frame(state, todo) == [state |-> state, todo |-> todo]

\* The fold of part1 / part2: acc * 10 + x
RECURSIVE Number(_)
Number(digits) ==
  IF digits = <<>> THEN 0
  ELSE Number(SubSeq(digits, 1, Len(digits) - 1)) * 10 + digits[Len(digits)]

\* ---------------------------------------------------------------- programs
\* INPUT / LITTLE of the tests: one input split into its four bits.
LITTLE ==
  Parse(<< <<"inp", W>>, <<"add", Z, Reg(W)>>, <<"mod", Z, Value(2)>>,
           <<"div", W, Value(2)>>, <<"add", Y, Reg(W)>>, <<"mod", Y, Value(2)>>,
           <<"div", W, Value(2)>>, <<"add", X, Reg(W)>>, <<"mod", X, Value(2)>>,
           <<"div", W, Value(2)>>, <<"mod", W, Value(2)>> >>)

\* INPUT2 of the tests.
INPUT2 ==
  Parse(<< <<"inp", W>>, <<"mul", W, Value(10)>>, <<"inp", X>>,
           <<"add", W, Reg(X)>>, <<"add", Y, Reg(W)>>, <<"eql", Y, Value(56)>> >>)

\* One block of the puzzle input's shape: z is zeroed iff the second digit
\* equals the first minus 3.
BLOCK ==
  Parse(<< <<"inp", W>>, <<"add", Z, Reg(W)>>, <<"inp", W>>, <<"mul", X, Value(0)>>,
           <<"add", X, Reg(Z)>>, <<"add", X, Value(-3)>>, <<"eql", X, Reg(W)>>,
           <<"eql", X, Value(0)>>, <<"mul", Z, Reg(X)>> >>)

\* A divisor that is zero for the digit 9 only.
DIVZERO ==
  Parse(<< <<"inp", W>>, <<"add", X, Reg(W)>>, <<"add", X, Value(-9)>>,
           <<"div", Y, Reg(X)>> >>)

\* A modulus that is zero for the second digit 9, whatever the first.
MODZERO ==
  Parse(<< <<"inp", W>>, <<"inp", X>>, <<"add", X, Value(-9)>>,
           <<"add", Y, Reg(W)>>, <<"mod", Y, Reg(X)>> >>)

\* A modulo whose left operand runs over -4..4.
NEGMOD ==
  Parse(<< <<"inp", W>>, <<"add", Z, Reg(W)>>, <<"add", Z, Value(-5)>>,
           <<"mod", Z, Value(3)>> >>)

\* z = w - w: correlated operands.
CORRELATED ==
  Parse(<< <<"inp", W>>, <<"add", Z, Reg(W)>>, <<"mul", Z, Value(-1)>>,
           <<"add", Z, Reg(W)>> >>)

\* z = w - w + 1: never zero, though the forward pass cannot tell.
NEVERZERO ==
  Parse(<< <<"inp", W>>, <<"add", Z, Reg(W)>>, <<"mul", Z, Value(-1)>>,
           <<"add", Z, Reg(W)>>, <<"add", Z, Value(1)>> >>)

\* Two digits that must be equal.
TWIN ==
  Parse(<< <<"inp", W>>, <<"inp", X>>, <<"eql", X, Reg(W)>>, <<"add", Z, Value(1)>>,
           <<"mul", Z, Reg(X)>>, <<"add", Z, Value(-1)>> >>)

\* A register that depends on a comparison, then multiplied by zero.
RESET ==
  Parse(<< <<"inp", W>>, <<"eql", W, Value(5)>>, <<"mul", W, Value(0)>>,
           <<"add", Z, Reg(W)>> >>)

\* test_symbolic: the sum of two fresh inputs.
SUM ==
  Parse(<< <<"inp", W>>, <<"inp", X>>, <<"add", W, Reg(X)>> >>)

\* z = 2 * (w == 5) - 1: the forward pass finds 0 only by taking the
\* comparison both ways.
CONFLICT ==
  Parse(<< <<"inp", W>>, <<"eql", W, Value(5)>>, <<"add", Z, Reg(W)>>, <<"add", Z, Reg(W)>>,
           <<"add", Z, Value(-1)>> >>)

\* z = (2 * (w == 5) + 1) / 2: the value found by taking the comparison both
\* ways lands on a key that the TRUE outcome produces too.
RECONCILED ==
  Parse(<< <<"inp", W>>, <<"eql", W, Value(5)>>, <<"add", Z, Reg(W)>>, <<"add", Z, Reg(W)>>,
           <<"add", Z, Value(1)>>, <<"div", Z, Value(2)>> >>)

Catalog ==
  {LITTLE, INPUT2, BLOCK, DIVZERO, MODZERO, NEGMOD, CORRELATED, NEVERZERO, TWIN, RESET,
   SUM, CONFLICT, RECONCILED}

\* The statements generated programs are built from.
GenStatements ==
  { <<"add", Z, Reg(W)>>, <<"add", Z, Value(-5)>>, <<"mul", Z, Reg(W)>>,
    <<"eql", Z, Reg(W)>>, <<"eql", W, Value(5)>>, <<"eql", Z, Value(0)>>,
    <<"div", W, Reg(Z)>>, <<"mod", Z, Value(3)>>, <<"mul", W, Value(-1)>>,
    <<"add", W, Reg(W)>> }

\* All sequences over S of length lo..hi.
SeqsOf(S, lo, hi) == UNION {[1..k -> S] : k \in lo..hi}

\* Every program `inp w` followed by 1..MaxBody generated statements.
Generated == {Parse(<< <<"inp", W>> >> \o body) : body \in SeqsOf(GenStatements, 1, MaxBody)}

Programs == Catalog \cup Generated

\* Every constraint vector for a program: one Option<bool> per comparison
\* id, or shorter.
Constraints(prog) == SeqsOf({"None", "Some(true)", "Some(false)"}, 0, NumEquals(prog))


\* ------------------------------------------------------------------- state
VARIABLES
  program,   \* the parsed instructions
  mode,      \* the entry point: "solve" (part1 then part2), "simple" (a plain
             \* run, as test_little_execution), "manual" (a constrained run
             \* under a given constraint, as test_constrained_execution),
             \* "crumbs" (breadcrumb operations, as test_breadcrumbs)
  part,      \* 1 while part1 runs, 2 while part2 runs
  phase,     \* "symbolic", "search", "replay", "simple", "manual", "crumbs",
             \* "done"
  sym,       \* compute_symbolic's symbol_state, Null outside the forward pass
  env,       \* the Environment of the running execute
  stack,     \* the activations of State::execute, the innermost last
  ret,       \* the ExecutionResult the innermost execute has returned:
             \* "none" while it runs, "ok", "err"
  panic,     \* the panic message, "none" while the process lives
  answer,    \* per part: None, or the digits and number it returned
  replay,    \* per part: None, or the outcome of re-running the answer
  lhs, rhs,  \* two breadcrumbs
  out,       \* None, or the last breadcrumb operation: its name, self before
             \* it, other, and self after it
  building   \* the result of the do_* in progress: the pairs done, the map
             \* built so far, whether do_equals has stamped it, and the last
             \* pair

machine == <<program, mode, part, phase, sym, env, stack, ret, panic, answer, replay>>
crumbs == <<lhs, rhs, out>>
vars == <<program, mode, part, phase, sym, env, stack, ret, panic, answer, replay,
          lhs, rhs, out, building>>

Top == stack[Len(stack)]
\* A panic ends the process.
Alive == panic = "none"
Running == Alive /\ phase \in {"search", "replay", "simple", "manual"}

\* -------------------------------------------------------------------- Init
NoCrumbs == lhs = <<>> /\ rhs = <<>> /\ out = None

\* SymbolicValue::default for result, before the loops.
NoBuild == [n |-> 0, result |-> <<>>, stamped |-> FALSE, pair |-> None]

\* part1(program) is entered: compute_symbolic starts from the default state.
InitSolve ==
  /\ program \in Programs
  /\ mode = "solve" /\ part = 1 /\ phase = "symbolic"
  /\ sym = SymbolicStateDefault
  /\ env = NoEnvironment /\ stack = <<>>

\* A plain run of a program on given digits (fewer than the program reads
\* included).
InitSimple ==
  /\ program \in Programs
  /\ mode = "simple" /\ part = 0 /\ phase = "simple"
  /\ sym = Null
  /\ \E inputs \in SeqsOf(Digits, 0, NumInputs(program)) : env = SimpleEnvironment(inputs)
  /\ stack = <<Frame(StateDefault, <<>>)>>

\* A constrained run of a catalog program under a given constraint.
InitManual ==
  /\ program \in Catalog
  /\ mode = "manual" /\ part = 0 /\ phase = "manual"
  /\ sym = Null
  /\ \E c \in Constraints(program), d \in BOOLEAN : env = ConstrainedEnvironment(c, d)
  /\ stack = <<Frame(StateDefault, <<>>)>>

Init ==
  /\ InitSolve \/ InitSimple \/ InitManual
  /\ ret = "none" /\ panic = "none"
  /\ answer = <<None, None>> /\ replay = <<None, None>>
  /\ NoCrumbs
  /\ building = NoBuild

\* ------------------------------------------------------------ forward pass
\* SymbolicState::evaluate on the next instruction.
Evaluate ==
  /\ Alive /\ phase = "symbolic"
  /\ sym.pc < Len(program)
  /\ LET stmt == program[sym.pc + 1] IN
     IF SymStmtPanics(sym, stmt)
     THEN /\ panic' = "attempt to divide by zero"
          /\ sym' = sym
     ELSE /\ sym' = SymEvaluate(sym, stmt)
          /\ panic' = panic
  /\ UNCHANGED <<program, mode, part, phase, env, stack, ret, answer, replay, crumbs, building>>

\* The end of compute_symbolic, and find_answer's set-up of the search.
ComputeSymbolic ==
  /\ Alive /\ phase = "symbolic"
  /\ sym.pc = Len(program)
  /\ IF 0 \in DOMAIN sym.register[Z]
     THEN /\ env' = ConstrainedEnvironment(GetConstraint(sym.register[Z][0]), part = 1)
          /\ stack' = <<Frame(StateDefault, <<>>)>>
          /\ phase' = "search"
          /\ sym' = Null
          /\ panic' = panic
     ELSE /\ panic' = "Can't find symbolic solution"
          /\ UNCHANGED <<env, stack, sym, phase>>
  /\ UNCHANGED <<program, mode, part, ret, answer, replay, crumbs, building>>

\* ---------------------------------------------------------------- executor
ReplaceTop(frame) == [stack EXCEPT ![Len(stack)] = frame]

\* State::execute on an Add, Multiply, Divide, Modulo or Equal.
ExecuteOp ==
  /\ Running /\ ret = "none"
  /\ Top.state.pc < Len(program)
  /\ LET state == Top.state
         statement == program[state.pc + 1]
         l == state.register[statement.reg]
         r == GetValue(state, statement.opd)
     IN /\ statement.op # "inp"
        /\ IF Panics(statement.op, l, r)
           THEN /\ panic' = "attempt to divide by zero"
                /\ UNCHANGED <<stack, ret>>
           ELSE LET result == Result(statement.op, l, r)
                    written == [state EXCEPT !.register[statement.reg] = result]
                IN /\ panic' = panic
                   /\ IF ShouldAbandon(env, statement, result)
                      THEN /\ stack' = ReplaceTop(Frame(written, <<>>))
                           /\ ret' = "err"
                      ELSE /\ stack' = ReplaceTop(Frame([written EXCEPT !.pc = @ + 1], <<>>))
                           /\ ret' = "none"
  /\ UNCHANGED <<program, mode, part, phase, sym, env, answer, replay, crumbs, building>>

\* State::execute on an Input: do_input is entered and starts its first
\* candidate, or finds none.
ExecuteInput ==
  /\ Running /\ ret = "none"
  /\ Top.state.pc < Len(program)
  /\ LET state == Top.state
         statement == program[state.pc + 1]
         inputs == GetInput(env, statement.id)
     IN /\ statement.op = "inp"
        /\ IF inputs = <<>>
           THEN /\ ret' = "err"
                /\ stack' = stack
           ELSE /\ ret' = "none"
                /\ stack' = Append(ReplaceTop(Frame(state, Tail(inputs))),
                                   Frame(ChildState(state, statement.reg, Head(inputs)), <<>>))
  /\ UNCHANGED <<program, mode, part, phase, sym, env, panic, answer, replay, crumbs, building>>

\* State::execute past the last instruction.
ExecuteFinish ==
  /\ Running /\ ret = "none"
  /\ Top.state.pc = Len(program)
  /\ ret' = IF CanFinish(env, Top.state) THEN "ok" ELSE "err"
  /\ UNCHANGED <<program, mode, part, phase, sym, env, stack, panic, answer, replay, crumbs, building>>

\* do_input after its child returned Ok: the child state becomes the state,
\* do_input returns Ok and execute goes on.
DoInputOk ==
  /\ Running /\ ret = "ok"
  /\ Len(stack) > 1
  /\ stack' = [SubSeq(stack, 1, Len(stack) - 1)
                 EXCEPT ![Len(stack) - 1] = Frame(Top.state, <<>>)]
  /\ ret' = "none"
  /\ UNCHANGED <<program, mode, part, phase, sym, env, panic, answer, replay, crumbs, building>>

\* do_input without the clone: the next candidate starts from the state the
\* failed one left.
DoInputErrShared ==
  /\ Running /\ ret = "err"
  /\ Len(stack) > 1
  /\ LET parent == stack[Len(stack) - 1]
         statement == program[parent.state.pc + 1]
         rest == SubSeq(stack, 1, Len(stack) - 2)
         left == [Top.state EXCEPT !.pc = parent.state.pc]
     IN IF parent.todo = <<>>
        THEN /\ stack' = Append(rest, Frame(left, <<>>))
             /\ ret' = "err"
        ELSE /\ stack' = rest \o <<Frame(left, Tail(parent.todo)),
                                   Frame(ChildState(left, statement.reg,
                                                    Head(parent.todo)), <<>>)>>
             /\ ret' = "none"
  /\ UNCHANGED <<program, mode, part, phase, sym, env, panic, answer, replay, crumbs, building>>

\* do_input after its child returned Err: the next candidate starts from a
\* clone of the state, or, none left, do_input and its execute return Err.
DoInputErr ==
  /\ Running /\ ret = "err"
  /\ Len(stack) > 1
  /\ LET parent == stack[Len(stack) - 1]
         statement == program[parent.state.pc + 1]
         rest == SubSeq(stack, 1, Len(stack) - 2)
     IN IF parent.todo = <<>>
        THEN /\ stack' = Append(rest, parent)
             /\ ret' = "err"
        ELSE /\ stack' = rest \o <<Frame(parent.state, Tail(parent.todo)),
                                   Frame(ChildState(parent.state, statement.reg,
                                                    Head(parent.todo)), <<>>)>>
             /\ ret' = "none"
  /\ UNCHANGED <<program, mode, part, phase, sym, env, panic, answer, replay, crumbs, building>>

\* --------------------------------------------------------------- callers
\* find_answer after execute returned, and the fold of part1 / part2; the
\* answer is then re-run under a SimpleEnvironment, as test_execution does.
FindAnswer ==
  /\ Alive /\ phase = "search" /\ ret # "none"
  /\ Len(stack) = 1
  /\ IF ret = "ok"
     THEN /\ answer' = [answer EXCEPT ![part] =
                          Some([digits |-> Top.state.inputs,
                                number |-> Number(Top.state.inputs)])]
          /\ phase' = "replay"
          /\ env' = SimpleEnvironment(Top.state.inputs)
          /\ stack' = <<Frame(StateDefault, <<>>)>>
          /\ ret' = "none"
          /\ panic' = panic
     ELSE /\ panic' = "Failed to find answer."
          /\ UNCHANGED <<answer, env, stack, ret, phase>>
  /\ UNCHANGED <<program, mode, part, sym, replay, crumbs, building>>

\* The re-run returned: its result and registers are kept; part2 follows
\* part1.
Replayed ==
  /\ Alive /\ phase = "replay" /\ ret # "none"
  /\ Len(stack) = 1
  /\ replay' = [replay EXCEPT ![part] =
                 Some([result |-> ret, register |-> Top.state.register])]
  /\ IF part = 1
     THEN /\ part' = 2
          /\ phase' = "symbolic"
          /\ sym' = SymbolicStateDefault
          /\ env' = NoEnvironment
          /\ stack' = <<>>
          /\ ret' = "none"
     ELSE /\ phase' = "done"
          /\ UNCHANGED <<part, sym, env, stack, ret>>
  /\ UNCHANGED <<program, mode, panic, answer, crumbs, building>>

\* A test's execute returned: state and result stay for its assertions.
Returned ==
  /\ Alive /\ phase \in {"simple", "manual"} /\ ret # "none"
  /\ Len(stack) = 1
  /\ phase' = "done"
  /\ UNCHANGED <<program, mode, part, sym, env, stack, ret, panic, answer, replay, crumbs, building>>

Next ==
  \/ Evaluate
  \/ ComputeSymbolic
  \/ ExecuteOp
  \/ ExecuteInput
  \/ ExecuteFinish
  \/ DoInputOk
  \/ DoInputErr
  \/ FindAnswer
  \/ Replayed
  \/ Returned

Spec == Init /\ [][Next]_vars


\* ------------------------------------------------------ breadcrumb runs
\* Breadcrumbs are combined in place, as descr.and(&descr2) of
\* test_breadcrumbs: lhs is self, rhs is other.
Idle ==
  /\ program = <<>> /\ mode = "crumbs" /\ part = 0 /\ phase = "crumbs"
  /\ sym = Null /\ env = NoEnvironment /\ stack = <<>>
  /\ ret = "none" /\ panic = "none"
  /\ answer = <<None, None>> /\ replay = <<None, None>>

AllCrumbs == SeqsOf(SymbolicBoolean, 0, MaxCrumbLen)

InitCrumbs ==
  /\ Idle
  /\ lhs \in AllCrumbs /\ rhs \in AllCrumbs
  /\ out = None
  /\ building = NoBuild

Did(op, after) == Some([op |-> op, self |-> lhs, other |-> rhs, result |-> after])

\* self.or(&other)
CrumbOr ==
  /\ lhs' = BreadCrumbOr(lhs, rhs)
  /\ out' = Did("or", BreadCrumbOr(lhs, rhs))
  /\ UNCHANGED <<machine, rhs, building>>

\* self.and(&other)
CrumbAnd ==
  /\ lhs' = BreadCrumbAnd(lhs, rhs)
  /\ out' = Did("and", BreadCrumbAnd(lhs, rhs))
  /\ UNCHANGED <<machine, rhs, building>>

\* self.set(equal_idx, value)
CrumbSet ==
  /\ \E equal_idx \in 0..(MaxCrumbLen - 1), value \in BOOLEAN :
       /\ lhs' = BreadCrumbSet(lhs, equal_idx, value)
       /\ out' = Did("set", BreadCrumbSet(lhs, equal_idx, value))
  /\ UNCHANGED <<machine, rhs, building>>

NextCrumbs == CrumbOr \/ CrumbAnd \/ CrumbSet

SpecCrumbs == InitCrumbs /\ [][NextCrumbs]_vars

\* ------------------------------------------------- forward pass, by pairs
\* SymbolicState::evaluate with the loops of do_add, do_multiply, do_divide,
\* do_modulo and do_equals taken one (left, right) pair at a time.
InitBuild ==
  /\ program \in Programs
  /\ mode = "build" /\ part = 0 /\ phase = "build"
  /\ sym = SymbolicStateDefault
  /\ env = NoEnvironment /\ stack = <<>>
  /\ ret = "none" /\ panic = "none"
  /\ answer = <<None, None>> /\ replay = <<None, None>>
  /\ NoCrumbs
  /\ building = NoBuild

Building == Alive /\ phase = "build" /\ sym.pc < Len(program)

\* left and right of the do_* at the pc, and their number of pairs.
Left == sym.register[program[sym.pc + 1].reg]
Right == SymGetValue(sym, program[sym.pc + 1].opd)
NumPairs == Cardinality(DOMAIN Left) * Cardinality(DOMAIN Right)

\* Key number k (from 0) of a map, the keys taken in increasing order: the
\* order SortedSeq gives the loops.
Nth(S, k) == CHOOSE x \in S : Cardinality({y \in S : y < x}) = k

\* One pass of the inner loop body without the clone of left_descr: the
\* breadcrumb stored in left is combined in place.
DoPairInPlace ==
  /\ Building
  /\ program[sym.pc + 1].op # "inp"
  /\ building.n < NumPairs
  /\ LET op == program[sym.pc + 1].op
         left_val == Nth(DOMAIN Left, building.n \div Cardinality(DOMAIN Right))
         right_val == Nth(DOMAIN Right, building.n % Cardinality(DOMAIN Right))
         total_descr == TotalDescr(op, left_val, Left[left_val], right_val, Right[right_val])
     IN IF DivideByZero(op, right_val)
        THEN /\ panic' = "attempt to divide by zero"
             /\ UNCHANGED <<building, sym>>
        ELSE /\ panic' = panic
             /\ sym' = [sym EXCEPT !.register[program[sym.pc + 1].reg][left_val] = total_descr]
             /\ building' =
                  [n |-> building.n + 1,
                   result |-> Merge(building.result, TotalVal(op, left_val, right_val),
                                    total_descr),
                   stamped |-> FALSE,
                   pair |-> Some([op |-> op,
                                  left_val |-> left_val, left_descr |-> Left[left_val],
                                  right_val |-> right_val, right_descr |-> Right[right_val],
                                  total_descr |-> total_descr])]
  /\ UNCHANGED <<program, mode, part, phase, env, stack, ret, answer, replay, crumbs>>

\* One pass of the inner loop body: total_val and total_descr of the pair,
\* merged into result.
DoPair ==
  /\ Building
  /\ program[sym.pc + 1].op # "inp"
  /\ building.n < NumPairs
  /\ LET op == program[sym.pc + 1].op
         left_val == Nth(DOMAIN Left, building.n \div Cardinality(DOMAIN Right))
         right_val == Nth(DOMAIN Right, building.n % Cardinality(DOMAIN Right))
         total_descr == TotalDescr(op, left_val, Left[left_val], right_val, Right[right_val])
     IN IF DivideByZero(op, right_val)
        THEN /\ panic' = "attempt to divide by zero"
             /\ UNCHANGED building
        ELSE /\ panic' = panic
             /\ building' =
                  [n |-> building.n + 1,
                   result |-> Merge(building.result, TotalVal(op, left_val, right_val),
                                    total_descr),
                   stamped |-> FALSE,
                   pair |-> Some([op |-> op,
                                  left_val |-> left_val, left_descr |-> Left[left_val],
                                  right_val |-> right_val, right_descr |-> Right[right_val],
                                  total_descr |-> total_descr])]
  /\ UNCHANGED <<program, mode, part, phase, sym, env, stack, ret, answer, replay, crumbs>>

\* The loop of do_equals over result.values.iter_mut(): descr.set(id, val == 1)
DoStamp ==
  /\ Building
  /\ program[sym.pc + 1].op = "eql"
  /\ building.n = NumPairs /\ ~building.stamped
  /\ building' =
       [n |-> building.n,
        result |-> [val \in DOMAIN building.result |->
                      BreadCrumbSet(building.result[val], program[sym.pc + 1].id, val = 1)],
        stamped |-> TRUE,
        pair |-> None]
  /\ UNCHANGED <<program, mode, part, phase, sym, env, stack, ret, panic, answer, replay,
                 crumbs>>

\* Rc::new(result), the assignment to the register and pc += 1.
Publish ==
  /\ Building
  /\ program[sym.pc + 1].op # "inp"
  /\ building.n = NumPairs
  /\ program[sym.pc + 1].op = "eql" => building.stamped
  /\ sym' = [pc |-> sym.pc + 1,
             register |-> [sym.register EXCEPT ![program[sym.pc + 1].reg] = building.result]]
  /\ building' = NoBuild
  /\ UNCHANGED <<program, mode, part, phase, env, stack, ret, panic, answer, replay, crumbs>>

\* The Input arm: do_input, the assignment and pc += 1.
BuildInput ==
  /\ Building
  /\ program[sym.pc + 1].op = "inp"
  /\ sym' = SymEvaluate(sym, program[sym.pc + 1])
  /\ UNCHANGED <<program, mode, part, phase, env, stack, ret, panic, answer, replay, crumbs,
                 building>>

NextBuild == DoPair \/ DoStamp \/ Publish \/ BuildInput

SpecBuild == InitBuild /\ [][NextBuild]_vars

\* ------------------------------------------------- plain execution, whole
\* State::execute under SimpleEnvironment{inputs}, as a function of the
\* digits: the outcome of the first n instructions ("ok" with the state
\* reached, "err" once an Input finds no digit, "panic"), and the outcomes
\* of the Equal instructions executed, in order of their ids.
RECURSIVE Run(_, _, _)
Run(prog, inputs, n) ==
  IF n = 0 THEN [status |-> "ok", state |-> StateDefault, equals |-> <<>>]
  ELSE
    LET before == Run(prog, inputs, n - 1)
        state == before.state
        statement == prog[n]
        l == state.register[statement.reg]
        r == GetValue(state, statement.opd)
        result == Result(statement.op, l, r)
    IN IF before.status # "ok" THEN before
       ELSE IF statement.op = "inp"
       THEN IF GetInput(SimpleEnvironment(inputs), statement.id) = <<>>
            THEN [before EXCEPT !.status = "err"]
            ELSE [before EXCEPT !.state = ChildState(state, statement.reg,
                     Head(GetInput(SimpleEnvironment(inputs), statement.id)))]
       ELSE IF Panics(statement.op, l, r)
       THEN [before EXCEPT !.status = "panic"]
       ELSE [status |-> "ok",
             state |-> [state EXCEPT !.register[statement.reg] = result, !.pc = @ + 1],
             equals |-> IF statement.op = "eql" THEN Append(before.equals, result)
                        ELSE before.equals]

\* Every assignment of digits to the first n inputs.
DigitSeqs(n) == SeqsOf(Digits, n, n)

\* The digit sequences on which the program runs to its end with Z = 0.
Zeroes(prog, inputs) ==
  LET run == Run(prog, inputs, Len(prog))
  IN run.status = "ok" /\ run.state.register[Z] = 0
Solutions(prog) == {d \in DigitSeqs(NumInputs(prog)) : Zeroes(prog, d)}

\* Lexicographic order of two digit sequences of one length.
LexLeq(a, b) ==
  \/ a = b
  \/ \E i \in 1..Len(a) : a[i] < b[i] /\ \A j \in 1..(i - 1) : a[j] = b[j]

\* --------------------------------------------------------------- claims
\* The search of part p has just been set up from compute_symbolic's vector.
SearchSetUp ==
  /\ mode = "solve" /\ phase = "search" /\ Alive
  /\ Len(stack) = 1 /\ Top.state.pc = 0 /\ ret = "none"

\* C1: whenever the constrained search returned a digit sequence, the plain
\* re-run of the program on that sequence neither panics nor fails, and ends
\* with Z = 0.
RoundTrip ==
  /\ phase = "replay" => Alive /\ (ret # "none" /\ Len(stack) = 1 => ret = "ok")
  /\ \A p \in 1..2 :
       replay[p] # None => The(replay[p]).result = "ok" /\ The(replay[p]).register[Z] = 0
RoundTripWitness ==
  /\ replay[1] # None /\ replay[2] # None
  /\ program = BLOCK
  /\ The(answer[1]).digits = <<9, 6>> /\ The(answer[2]).digits = <<4, 1>>

\* C2: for a program with a solution, part1 returns the lexicographically
\* largest and part2 the smallest of all the sequences that zero Z.
PartsReturnExtremes ==
  mode = "solve" /\ Solutions(program) # {} =>
    /\ Alive
    /\ answer[1] # None =>
         /\ The(answer[1]).digits \in Solutions(program)
         /\ \A d \in Solutions(program) : LexLeq(d, The(answer[1]).digits)
    /\ answer[2] # None =>
         /\ The(answer[2]).digits \in Solutions(program)
         /\ \A d \in Solutions(program) : LexLeq(The(answer[2]).digits, d)

\* C3: every solution agrees with every pinned entry of the vector
\* compute_symbolic returned: the Equal with that id evaluates to the pinned
\* outcome on it.
ConstraintIsNecessary ==
  SearchSetUp =>
    \A d \in Solutions(program) :
      LET equals == Run(program, d, Len(program)).equals IN
      \A i \in 1..Len(env.constraint) :
        /\ env.constraint[i] = "Some(true)" => i <= Len(equals) /\ equals[i] = 1
        /\ env.constraint[i] = "Some(false)" => i <= Len(equals) /\ equals[i] = 0
ConstraintIsNecessaryWitness ==
  /\ SearchSetUp
  /\ Solutions(program) # {}
  /\ \E i, j \in 1..Len(env.constraint) :
       env.constraint[i] = "Some(true)" /\ env.constraint[j] = "Some(false)"

\* The values register r takes when the first n instructions run on every
\* assignment of digits to the inputs among them.
ConcreteValues(prog, n, r) ==
  LET runs == {Run(prog, d, n) : d \in DigitSeqs(NumOps(prog, n, "inp"))}
  IN {run.state.register[r] : run \in {x \in runs : x.status = "ok"}}

AtOp(ops, l, r) ==
  /\ Running /\ ret = "none"
  /\ Top.state.pc < Len(program)
  /\ LET statement == program[Top.state.pc + 1] IN
     /\ statement.op \in ops
     /\ Top.state.register[statement.reg] \in l
     /\ GetValue(Top.state, statement.opd) \in r

\* C5: a Divide or Modulo by a zero operand during the constrained search
\* fails its branch only: the execute returns Err, nothing panics.
ZeroDivisorFailsBranch ==
  [][env.kind = "constrained" /\ AtOp({"div", "mod"}, Int, {0})
       => ret' = "err" /\ panic' = "none"]_vars

\* C6: a Modulo with a zero or negative left operand, or a non-positive
\* right operand, fails its branch and writes no remainder.
InvalidModuloFailsBranch ==
  [][\/ AtOp({"mod"}, {v \in Int : v <= 0}, Int)
     \/ AtOp({"mod"}, Int, {v \in Int : v <= 0})
       => ret' = "err" /\ panic' = "none" /\ Top'.state.register = Top.state.register]_vars

\* C7: a returned sequence has one digit of 1..9 per Input, and part2's
\* number is at most part1's.
AnswersAreDigits ==
  /\ \A p \in 1..2 :
       answer[p] # None =>
         /\ Len(The(answer[p]).digits) = NumInputs(program)
         /\ \A i \in 1..Len(The(answer[p]).digits) : The(answer[p]).digits[i] \in 1..9
  /\ answer[1] # None /\ answer[2] # None => The(answer[2]).number <= The(answer[1]).number
AnswersAreDigitsWitness ==
  /\ answer[1] # None /\ answer[2] # None
  /\ NumInputs(program) = 2
  /\ The(answer[2]).number < The(answer[1]).number

\* C8: when a constrained execute returns Ok to its caller, the state is
\* the accepted branch: all instructions done, one digit per Input, the
\* registers of the plain run on those digits, every pinned Equal with its
\* required outcome, Z = 0; INPUT2 under [Some(true)], descending, ends
\* with registers [56, 6, 1, 0].
AcceptedBranch ==
  Alive /\ env.kind = "constrained" /\ ret = "ok" /\ Len(stack) = 1 =>
    LET state == Top.state
        run == Run(program, state.inputs, Len(program))
    IN /\ state.pc = Len(program)
       /\ Len(state.inputs) = NumInputs(program)
       /\ run.status = "ok"
       /\ run.state = state
       /\ \A i \in 1..Len(env.constraint) :
            /\ env.constraint[i] = "Some(true)" => run.equals[i] = 1
            /\ env.constraint[i] = "Some(false)" => run.equals[i] = 0
       /\ state.register[Z] = 0
       /\ program = INPUT2 /\ env.constraint = <<"Some(true)">> /\ env.is_descending
            => state.register = <<56, 6, 1, 0>>
AcceptedBranchWitness ==
  /\ Alive /\ env.kind = "constrained" /\ ret = "ok" /\ Len(stack) = 1
  /\ program = INPUT2 /\ env.constraint = <<"Some(true)">> /\ env.is_descending
  /\ Top.state.inputs = <<5, 6>>

\* Bit k of d.
Bit(d, k) == (d \div (2 ^ k)) % 2

\* C9: the plain run of LITTLE on any one digit d returns Ok, without a
\* panic, and leaves bits 3, 2, 1, 0 of d in w, x, y, z.
BitDecomposition ==
  mode = "simple" /\ program = LITTLE /\ Len(env.inputs) = 1 =>
    /\ Alive
    /\ ret # "err"
    /\ ret = "ok" =>
         Top.state.register = [r \in Registers |-> Bit(env.inputs[1], SIZE - r)]
BitDecompositionWitness ==
  /\ mode = "simple" /\ program = LITTLE /\ env.inputs = <<9>>
  /\ phase = "done" /\ ret = "ok"
  /\ Top.state.register = <<1, 0, 0, 1>>


\* C10: or and and are commutative and idempotent, on every pair of lattice
\* values the two breadcrumbs hold.
Commutes(a, b) == SymOr(a, b) = SymOr(b, a) /\ SymAnd(a, b) = SymAnd(b, a)
Idempotent(a) == SymOr(a, a) = a /\ SymAnd(a, a) = a
LatticeLaws ==
  \A i \in 1..Len(lhs), j \in 1..Len(rhs) :
    Commutes(lhs[i], rhs[j]) /\ Idempotent(lhs[i]) /\ Idempotent(rhs[j])
LatticeLawsWitness ==
  /\ out # None
  /\ The(out).op = "or"
  /\ The(out).self = <<"TRUE", "INVALID">> /\ rhs = <<"INVALID", "FALSE">>
  /\ lhs = <<"TRUE", "FALSE">>

\* C11: ANY is the identity of and, INVALID the identity of or, and the or of
\* two different values, neither INVALID, is ANY; on every pair of lattice
\* values the two breadcrumbs hold.
Identities(a) == SymAnd("ANY", a) = a /\ SymOr("INVALID", a) = a
JoinsToAny(a, b) == a # b /\ a # "INVALID" /\ b # "INVALID" => SymOr(a, b) = "ANY"
LatticeIdentities ==
  \A i \in 1..Len(lhs), j \in 1..Len(rhs) :
    Identities(lhs[i]) /\ Identities(rhs[j]) /\ JoinsToAny(lhs[i], rhs[j])
LatticeIdentitiesWitness ==
  /\ out # None
  /\ The(out).op = "and"
  /\ The(out).self = <<"ANY", "TRUE">> /\ rhs = <<"FALSE", "ANY">>
  /\ lhs = <<"FALSE", "TRUE">>

\* Position i (from 1) of a breadcrumb: values past the end are ANY.
At(crumb, i) == IF i <= Len(crumb) THEN crumb[i] ELSE "ANY"
Pinned(v) == v \in {"TRUE", "FALSE"}
Positions(a, b) == 1..Max(Len(a), Len(b))

\* What and leaves at position i where operand a is pinned, b the other one.
KeepsPinned(a, b, result, i) ==
  Pinned(At(a, i)) =>
    /\ At(result, i) \in {At(a, i), "INVALID"}
    /\ At(result, i) = "INVALID" => At(b, i) \notin {"ANY", At(a, i)}

\* C12: after self.and(other), every position pinned in self or in other
\* holds that pinned value or INVALID, and INVALID only where the other
\* operand holds a different value that is not ANY.
AndKeepsPinned ==
  out # None /\ The(out).op = "and" =>
    LET a == The(out).self
        b == The(out).other
        result == The(out).result
    IN /\ lhs = result
       /\ \A i \in Positions(a, b) :
            KeepsPinned(a, b, result, i) /\ KeepsPinned(b, a, result, i)
AndKeepsPinnedWitness ==
  /\ out # None
  /\ The(out).op = "and"
  /\ The(out).self = <<"TRUE">> /\ The(out).other = <<"FALSE", "TRUE">>
  /\ The(out).result = <<"INVALID", "TRUE">>

\* C13 as stated: after self.or(other), a position pinned in the result
\* holds that same value in both operands.
OrPinsOnlyAgreed ==
  out # None /\ The(out).op = "or" =>
    LET a == The(out).self
        b == The(out).other
        result == The(out).result
    IN \A i \in 1..Len(result) :
         Pinned(result[i]) => At(a, i) = result[i] /\ At(b, i) = result[i]

\* C13 amended: a position pinned in the result holds that value in one
\* operand and that value or INVALID in the other.
OrPinsOnlyUncontested ==
  out # None /\ The(out).op = "or" =>
    LET a == The(out).self
        b == The(out).other
        result == The(out).result
    IN /\ lhs = result
       /\ Len(result) = Max(Len(a), Len(b))
       /\ \A i \in 1..Len(result) :
            Pinned(result[i]) =>
              /\ At(a, i) \in {result[i], "INVALID"}
              /\ At(b, i) \in {result[i], "INVALID"}
              /\ At(a, i) = result[i] \/ At(b, i) = result[i]
OrPinsOnlyUncontestedWitness ==
  /\ out # None
  /\ The(out).op = "or"
  /\ The(out).self = <<"TRUE", "FALSE">> /\ The(out).other = <<"INVALID", "FALSE">>
  /\ The(out).result = <<"TRUE", "FALSE">>

\* C15: when the forward pass ends with no key 0 in register Z, and
\* compute_symbolic so reports failure, no digit sequence makes the plain
\* run of the program end with Z = 0.
AbsentZeroMeansNoSolution ==
  /\ phase = "symbolic" /\ Alive /\ sym.pc = Len(program) /\ 0 \notin DOMAIN sym.register[Z]
       => Solutions(program) = {}
  /\ panic = "Can't find symbolic solution"
       => 0 \notin DOMAIN sym.register[Z] /\ Solutions(program) = {}
AbsentZeroMeansNoSolutionWitness ==
  /\ panic = "Can't find symbolic solution"
  /\ NumInputs(program) = 1 /\ NumEquals(program) = 1
  /\ DOMAIN sym.register[Z] = {1}

\* The digit sequences a constrained search may accept: they zero Z and
\* give every pinned Equal its required outcome.
Satisfies(prog, constraint, d) ==
  LET equals == Run(prog, d, Len(prog)).equals IN
  \A i \in 1..Len(constraint) :
    /\ constraint[i] = "Some(true)" => equals[i] = 1
    /\ constraint[i] = "Some(false)" => equals[i] = 0
Acceptable(prog, constraint) == {d \in Solutions(prog) : Satisfies(prog, constraint, d)}

\* C16: the constrained execute returns Err to its caller only after every
\* candidate of the outermost Input was tried, and only when no digit
\* sequence is acceptable: when one is, it returns Ok.
FailsOnlyWithoutSolution ==
  env.kind = "constrained" =>
    /\ ret = "err" /\ Len(stack) = 1 /\ Top.state.pc < Len(program)
          /\ program[Top.state.pc + 1].op = "inp"
         => Top.todo = <<>>
    /\ Acceptable(program, env.constraint) # {} =>
         /\ Alive
         /\ ret # "none" /\ Len(stack) = 1 => ret = "ok"

\* The constraint pins the Equal statement to the opposite of the outcome
\* its operands l, r give.
PinnedOpposite(constraint, statement, l, r) ==
  /\ statement.op = "eql"
  /\ statement.id < Len(constraint)
  /\ constraint[statement.id + 1] = (IF l = r THEN "Some(false)" ELSE "Some(true)")

\* C17: in a constrained execute, an instruction returns Err exactly when it
\* is an Equal pinned to the opposite of its outcome, and then the pc stays;
\* every other instruction advances the pc; an execute that returned Err
\* runs no further instruction.
AbandonsOnPinnedMismatch ==
  [][/\ env.kind = "constrained" /\ AtOp({"add", "mul", "div", "mod", "eql"}, Int, Int)
          /\ panic' = "none"
       => LET state == Top.state
              statement == program[state.pc + 1]
              l == state.register[statement.reg]
              r == GetValue(state, statement.opd)
          IN /\ Len(stack') = Len(stack)
             /\ Top'.state.inputs = state.inputs
             /\ IF PinnedOpposite(env.constraint, statement, l, r)
                THEN ret' = "err" /\ Top'.state.pc = state.pc
                ELSE ret' = "none" /\ Top'.state.pc = state.pc + 1
     /\ env.kind = "constrained" /\ Running /\ ret = "err"
       => \/ stack' = stack
          \/ Len(stack') < Len(stack) /\ ret' = "err"
          \/ Len(stack') = Len(stack) /\ Top'.state.inputs # Top.state.inputs]_vars
AbandonsOnPinnedMismatchWitness ==
  /\ program = INPUT2 /\ env = ConstrainedEnvironment(<<"Some(true)">>, TRUE)
  /\ ret = "err" /\ Len(stack) = 3
  /\ Top.state = [register |-> <<99, 9, 0, 0>>, inputs |-> <<9, 9>>, pc |-> 5]

\* child is parent with one more digit: the digit read into the register of
\* the Input at parent's pc, and the pc one further.
IsCloneWithDigit(child, parent) ==
  /\ parent.pc < Len(program)
  /\ program[parent.pc + 1].op = "inp"
  /\ Len(child.inputs) = Len(parent.inputs) + 1
  /\ SubSeq(child.inputs, 1, Len(parent.inputs)) = parent.inputs
  /\ child.pc = parent.pc + 1
  /\ \A r \in Registers :
       child.register[r] = IF r = program[parent.pc + 1].reg
                           THEN child.inputs[Len(child.inputs)]
                           ELSE parent.register[r]

\* C18: a state waiting in do_input is not changed by what its candidates
\* do; when a candidate has failed, the state is as it was before the
\* candidate was tried, and the next candidate is a clone of it with its own
\* digit.
CandidatesRunOnClones ==
  [][Running /\ phase' = phase =>
       /\ \A k \in 1..Len(stack) : k < Len(stack') => stack'[k].state = stack[k].state
       /\ Len(stack') = Len(stack) + 1 => IsCloneWithDigit(Top'.state, Top.state)
       /\ ret = "err" /\ Len(stack) > 1 =>
            /\ stack'[Len(stack) - 1].state = stack[Len(stack) - 1].state
            /\ Len(stack') = Len(stack) =>
                 IsCloneWithDigit(Top'.state, stack[Len(stack) - 1].state)]_vars
CandidatesRunOnClonesWitness ==
  /\ program = INPUT2 /\ env = ConstrainedEnvironment(<<"Some(true)">>, TRUE)
  /\ ret = "none" /\ Len(stack) = 3
  /\ stack[2] = Frame([register |-> <<90, 0, 0, 0>>, inputs |-> <<9>>, pc |-> 2],
                       <<7, 6, 5, 4, 3, 2, 1>>)
  /\ Top.state = [register |-> <<90, 8, 0, 0>>, inputs |-> <<9, 8>>, pc |-> 3]

\* The digit the innermost candidate was given.
Digit(frames) == frames[Len(frames)].state.inputs[Len(frames[Len(frames)].state.inputs)]

\* C19: in a constrained execute the first candidate of an Input is 9 when
\* descending and 1 when ascending; a further candidate starts only when the
\* one before it returned Err, and is the next digit in that order; once
\* a candidate returned Ok, it is handed up and no candidate starts.
TriedInOrderUntilAccepted ==
  [][env.kind = "constrained" /\ Running /\ phase' = phase =>
       /\ Len(stack') = Len(stack) + 1 =>
            /\ ret = "none"
            /\ Top.state.pc < Len(program)
            /\ Digit(stack') = IF env.is_descending THEN 9 ELSE 1
       /\ Len(stack') = Len(stack) /\ Top'.state.inputs # Top.state.inputs =>
            /\ ret = "err"
            /\ Digit(stack') = IF env.is_descending THEN Digit(stack) - 1 ELSE Digit(stack) + 1
       /\ ret = "ok" =>
            /\ Top.state.pc = Len(program)
            /\ IF Len(stack) = 1 THEN stack' = stack
               ELSE /\ Len(stack') = Len(stack) - 1
                    /\ Top'.state = Top.state]_vars
TriedInOrderUntilAcceptedWitness ==
  /\ program = INPUT2 /\ env = ConstrainedEnvironment(<<"Some(true)">>, TRUE)
  /\ ret = "ok" /\ Len(stack) = 3
  /\ stack[1].todo = <<4, 3, 2, 1>> /\ stack[2].todo = <<5, 4, 3, 2, 1>>
  /\ Top.state.inputs = <<5, 6>>

MultiplyCrumbs ==
  /\ building.pair # None /\ The(building.pair).op = "mul" =>
       LET pair == The(building.pair) IN
       pair.total_descr =
         CASE pair.left_val = 0 /\ pair.right_val = 0 ->
                BreadCrumbOr(pair.left_descr, pair.right_descr)
           [] pair.left_val = 0 /\ pair.right_val # 0 -> pair.left_descr
           [] pair.left_val # 0 /\ pair.right_val = 0 -> pair.right_descr
           [] pair.left_val # 0 /\ pair.right_val # 0 ->
                BreadCrumbAnd(pair.left_descr, pair.right_descr)
  /\ phase = "build" /\ sym.pc > 0 /\ building = NoBuild
       /\ program[sym.pc].op = "mul" /\ program[sym.pc].opd = Value(0)
       => LET value == sym.register[program[sym.pc].reg] IN
          /\ DOMAIN value = {0}
          /\ \A i \in 1..Len(value[0]) : ~Pinned(value[0][i])
MultiplyCrumbsWitness ==
  /\ phase = "build" /\ program = RESET /\ sym.pc = 3 /\ building = NoBuild
  /\ sym.register[W] = (0 :> <<"ANY">>)

\* C21: the breadcrumb of a pair of do_divide or do_modulo is the left one
\* when the left value is zero and and(left, right) otherwise, and every
\* pair gets its result, a zero or negative right value included: the
\* forward pass does not abort in a Divide or Modulo.
DivideModuloCrumbs ==
  /\ building.pair # None /\ The(building.pair).op \in {"div", "mod"} =>
       LET pair == The(building.pair) IN
       pair.total_descr = IF pair.left_val = 0 THEN pair.left_descr
                          ELSE BreadCrumbAnd(pair.left_descr, pair.right_descr)
  /\ phase = "build" /\ sym.pc < Len(program) /\ program[sym.pc + 1].op \in {"div", "mod"}
       => Alive

\* The or of a non-empty set of lattice values: INVALID when all are, the one
\* value other than INVALID when there is one only, ANY otherwise.
Join(V) ==
  LET valid == V \ {"INVALID"} IN
  IF valid = {} THEN "INVALID"
  ELSE IF Cardinality(valid) = 1 THEN CHOOSE v \in valid : TRUE
  ELSE "ANY"

\* The pairs of keys of the two operands of the do_* at the pc.
OperandPairs == (DOMAIN Left) \X (DOMAIN Right)

\* C22: when do_equals has stamped its result, the keys are the outcomes (1
\* equal, 0 different) the operand pairs produce; the breadcrumb of a key
\* holds TRUE for key 1 and FALSE for key 0 at the comparison's position,
\* and at every other position the or, over the pairs with that outcome, of
\* and(left, right).
EqualsStamped ==
  Building /\ building.stamped =>
    LET k == program[sym.pc + 1].id + 1
        outcome(p) == IF p[1] = p[2] THEN 1 ELSE 0
    IN /\ program[sym.pc + 1].op = "eql"
       /\ DOMAIN building.result \subseteq {0, 1}
       /\ DOMAIN building.result = {outcome(p) : p \in OperandPairs}
       /\ \A key \in DOMAIN building.result :
            LET crumb == building.result[key]
                from == {p \in OperandPairs : outcome(p) = key}
            IN /\ Len(crumb) >= k
               /\ crumb[k] = IF key = 1 THEN "TRUE" ELSE "FALSE"
               /\ \A i \in 1..(NumEquals(program) + 1) :
                    i # k =>
                      At(crumb, i) =
                        Join({At(BreadCrumbAnd(Left[p[1]], Right[p[2]]), i) : p \in from})
EqualsStampedWitness ==
  /\ Building /\ building.stamped
  /\ program = Parse(<< <<"inp", W>>, <<"eql", W, Value(5)>>, <<"eql", W, Value(5)>> >>)
  /\ sym.pc = 2
  /\ building.result = (0 :> <<"ANY", "FALSE">>)

\* C23: the vector compute_symbolic hands to the search has the length of
\* the breadcrumb stored for Z = 0 and, position by position, Some(true) for
\* TRUE, Some(false) for FALSE, None for ANY and INVALID; an Equal whose id is
\* at or beyond that length never fails its branch.
ConstraintExtraction ==
  [][/\ phase = "symbolic" /\ phase' = "search" =>
          LET crumb == sym.register[Z][0] IN
          /\ Len(env'.constraint) = Len(crumb)
          /\ \A i \in 1..Len(crumb) :
               env'.constraint[i] = CASE crumb[i] = "TRUE" -> "Some(true)"
                                      [] crumb[i] = "FALSE" -> "Some(false)"
                                      [] crumb[i] \in {"ANY", "INVALID"} -> "None"
     /\ env.kind = "constrained" /\ AtOp({"eql"}, Int, Int)
          /\ program[Top.state.pc + 1].id >= Len(env.constraint)
         => ret' = "none" /\ Top'.state.pc = Top.state.pc + 1]_vars
ConstraintExtractionWitness ==
  /\ SearchSetUp
  /\ program = CONFLICT
  /\ env.constraint = <<"None">>

\* descr and descr2 of test_breadcrumbs.
Descr == BreadCrumbSet(BreadCrumbSet(BreadCrumbSet(BreadCrumbInit, 1, FALSE), 2, FALSE), 4, TRUE)
Descr2 == BreadCrumbSet(BreadCrumbInit, 2, TRUE)

\* C24: self.and(other) and self.or(other) leave in self, at every position
\* up to the longer of the two lengths, the and / or of the two values there,
\* a value past the end of a vector being ANY: a position only one vector has
\* becomes ANY under or and keeps its value under and; and
\* {1: FALSE, 2: FALSE, 4: TRUE} and {2: TRUE} is {1: FALSE, 2: INVALID, 4: TRUE}.
CombinesPositionWise ==
  /\ out # None /\ The(out).op \in {"and", "or"} =>
       LET a == The(out).self
           b == The(out).other
           result == The(out).result
       IN /\ lhs = result /\ rhs = b
          /\ Len(result) = Max(Len(a), Len(b))
          /\ \A i \in 1..Len(result) :
               /\ result[i] = IF The(out).op = "and" THEN SymAnd(At(a, i), At(b, i))
                               ELSE SymOr(At(a, i), At(b, i))
               /\ i > Min(Len(a), Len(b)) =>
                    result[i] = IF The(out).op = "or" THEN "ANY"
                                ELSE IF i <= Len(a) THEN a[i] ELSE b[i]
  /\ BreadCrumbAnd(Descr, Descr2) = <<"ANY", "FALSE", "INVALID", "ANY", "TRUE">>
CombinesPositionWiseWitness ==
  /\ out # None
  /\ The(out).op = "or"
  /\ The(out).self = <<"TRUE", "FALSE">> /\ The(out).other = <<"TRUE">>
  /\ The(out).result = <<"TRUE", "ANY">>

\* The do_* at the pc has been through all its pairs, and its stamping.
Complete ==
  /\ Building
  /\ program[sym.pc + 1].op # "inp"
  /\ building.n = NumPairs
  /\ program[sym.pc + 1].op = "eql" => building.stamped

\* The value and the breadcrumb the instruction at the pc gives the pair p
\* of operand keys.
Produced(p) == Result(program[sym.pc + 1].op, p[1], p[2])
Combined(p) ==
  LET stmt == program[sym.pc + 1]
      descr == TotalDescr(stmt.op, p[1], Left[p[1]], p[2], Right[p[2]])
  IN IF stmt.op = "eql" THEN BreadCrumbSet(descr, stmt.id, p[1] = p[2]) ELSE descr

\* C25: the result of a binary do_* has exactly the keys op(l, r) of the
\* pairs of operand keys, and for each key the or of the breadcrumbs of the
\* pairs that produce it; the sum of two fresh inputs has the keys 2..18.
ResultOfAllPairs ==
  /\ Complete =>
       /\ DOMAIN building.result = {Produced(p) : p \in OperandPairs}
       /\ \A key \in DOMAIN building.result :
            LET from == {p \in OperandPairs : Produced(p) = key} IN
            /\ \A i \in 1..(NumEquals(program) + 1) :
                 At(building.result[key], i) = Join({At(Combined(p), i) : p \in from})
            /\ \A p \in from : Len(Combined(p)) <= Len(building.result[key])
            /\ \E p \in from : Len(Combined(p)) = Len(building.result[key])
  /\ phase = "build" /\ program = SUM /\ sym.pc = Len(SUM) => DOMAIN sym.register[W] = 2..18
ResultOfAllPairsWitness ==
  /\ Complete
  /\ program = SUM
  /\ building.n = 81
  /\ DOMAIN building.result = 2..18

\* The and of the two breadcrumbs is what the pair was given.
PairIsAnd(pair) ==
  \/ pair.op \in {"add", "eql"}
  \/ pair.op = "mul" /\ pair.left_val # 0 /\ pair.right_val # 0
  \/ pair.op \in {"div", "mod"} /\ pair.left_val # 0

\* C26: and(INVALID, x) = INVALID for every x, and(a, b) = INVALID for
\* different a, b neither of them ANY; a pair combined by and is INVALID
\* wherever one of its breadcrumbs is; and a position of a stored breadcrumb
\* that holds INVALID stops holding it only when a pair whose breadcrumb is
\* not INVALID there is merged into it by or.
InvalidPersists ==
  [][phase = "build" =>
       /\ \A x \in SymbolicBoolean :
            SymAnd("INVALID", x) = "INVALID" /\ SymAnd(x, "INVALID") = "INVALID"
       /\ \A a, b \in SymbolicBoolean :
            a # b /\ a # "ANY" /\ b # "ANY" => SymAnd(a, b) = "INVALID"
       /\ building'.pair # None /\ PairIsAnd(The(building'.pair)) =>
            LET pair == The(building'.pair) IN
            \A i \in 1..Len(pair.total_descr) :
              "INVALID" \in {At(pair.left_descr, i), At(pair.right_descr, i)}
                => pair.total_descr[i] = "INVALID"
       /\ \A key \in DOMAIN building.result :
            \A i \in 1..Len(building.result[key]) :
              /\ key \in DOMAIN building'.result
              /\ building.result[key][i] = "INVALID"
              /\ building'.result[key][i] # "INVALID"
              => /\ building'.n = building.n + 1
                 /\ building'.pair # None
                 /\ Produced(<<The(building'.pair).left_val, The(building'.pair).right_val>>)
                      = key
                 /\ At(The(building'.pair).total_descr, i) # "INVALID"]_vars
InvalidPersistsWitness ==
  /\ phase = "build" /\ program = RECONCILED /\ sym.pc = 5
  /\ building.n = 3
  /\ Left[2] = <<"INVALID">>
  /\ The(building.pair).total_descr = <<"TRUE">>
  /\ building.result[1] = <<"TRUE">>

\* C27: between two instructions of the forward pass, whatever digits the
\* inputs read so far are given, the plain run of the instructions done so
\* far leaves in each register a value that is a key of the register's
\* symbolic value: keys no digits produce may be there, no value is missing.
ForwardPassOmitsNothing ==
  phase = "build" /\ building = NoBuild =>
    \A d \in DigitSeqs(NumOps(program, sym.pc, "inp")) :
      LET run == Run(program, d, sym.pc) IN
      run.status = "ok" =>
        \A r \in Registers : run.state.register[r] \in DOMAIN sym.register[r]
ForwardPassOmitsNothingWitness ==
  /\ phase = "build" /\ building = NoBuild
  /\ program = CORRELATED /\ sym.pc = Len(program)
  /\ \A d \in DigitSeqs(1) : Run(program, d, sym.pc).state.register[Z] = 0
  /\ DOMAIN sym.register[Z] = (-8)..8

\* The breadcrumb a key ends with when pairs with the breadcrumbs a, b, c
\* land on it in that order: a inserted, b and c merged by or.
Merged(a, b, c) == BreadCrumbOr(BreadCrumbOr(a, b), c)

Associative(a, b, c) ==
  /\ SymOr(SymOr(a, b), c) = SymOr(a, SymOr(b, c))
  /\ SymAnd(SymAnd(a, b), c) = SymAnd(a, SymAnd(b, c))
Absorbs(a, b) == SymOr(a, SymAnd(a, b)) = a /\ SymAnd(a, SymOr(a, b)) = a

\* The third breadcrumbs merged with lhs and rhs: the short ones, and the
\* breadcrumb lhs was before the last operation.
Thirds ==
  {c \in AllCrumbs : Len(c) <= 1} \cup (IF out = None THEN {} ELSE {The(out).self})

\* C28: or and and are associative and absorb each other, on all the lattice
\* values the two breadcrumbs hold; and three breadcrumbs merged onto one key
\* give the same breadcrumb, and the same constraint vector, in each of the
\* six orders.
OrderIndependent ==
  /\ \A i, k \in 1..Len(lhs), j \in 1..Len(rhs) :
       /\ Associative(lhs[i], rhs[j], lhs[k]) /\ Associative(lhs[i], lhs[k], rhs[j])
       /\ Associative(rhs[j], lhs[i], lhs[k])
       /\ Absorbs(lhs[i], rhs[j]) /\ Absorbs(rhs[j], lhs[i]) /\ Absorbs(lhs[i], lhs[k])
  /\ \A c \in Thirds :
       LET first == Merged(lhs, rhs, c) IN
       /\ \A other \in {Merged(lhs, c, rhs), Merged(rhs, lhs, c), Merged(rhs, c, lhs),
                          Merged(c, lhs, rhs), Merged(c, rhs, lhs)} :
            other = first /\ GetConstraint(other) = GetConstraint(first)
OrderIndependentWitness ==
  /\ out # None
  /\ The(out).op = "or"
  /\ The(out).self = <<"INVALID", "TRUE">> /\ The(out).other = <<"FALSE">>
  /\ The(out).result = <<"FALSE", "ANY">>

\* The runs whose ends are awaited: execute under a SimpleEnvironment or a
\* ConstrainedEnvironment, and the forward pass taken pair by pair. The
\* program is sequential: a step that can be taken is taken.
InitRuns == (Init /\ mode # "solve") \/ InitBuild
NextRuns ==
  \/ ExecuteOp \/ ExecuteInput \/ ExecuteFinish \/ DoInputOk \/ DoInputErr \/ Returned
  \/ NextBuild
SpecRuns == InitRuns /\ [][NextRuns]_vars /\ WF_vars(NextRuns)

\* C29: every execute that runs returns Ok or Err to its first caller, and
\* every forward pass reaches the end of the program.
Terminates ==
  /\ (Running /\ ret = "none") ~> (Alive /\ ret # "none" /\ Len(stack) = 1)
  /\ (phase = "build") ~> (Alive /\ phase = "build" /\ sym.pc = Len(program) /\ building = NoBuild)

\* A plain run of the first pc instructions on the state's own inputs list
\* ends in the state.
Replays(state) ==
  LET run == Run(program, state.inputs, state.pc)
  IN run.status = "ok" /\ run.state = state

\* The state of activation i of execute: one entry of inputs for each Input
\* among the first pc instructions, the k-th a digit the environment offers
\* the k-th Input, and registers those of the first pc instructions run on
\* these digits (an activation that has just abandoned has written the
\* register of the instruction at pc as well).
ConsistentFrame(i) ==
  LET state == stack[i].state IN
  /\ Len(state.inputs) = NumOps(program, state.pc, "inp")
  /\ \A k \in 1..Len(state.inputs) :
       \E j \in 1..Len(GetInput(env, k - 1)) : GetInput(env, k - 1)[j] = state.inputs[k]
  /\ (i = Len(stack) /\ ret = "err") \/ Replays(state)

\* A step of execute on an Add, Multiply, Divide, Modulo or Equal leaves the
\* other registers, the inputs list and the calling activations as they were.
OnlyDestination ==
  (/\ Running /\ ret = "none"
   /\ Top.state.pc < Len(program)
   /\ program[Top.state.pc + 1].op # "inp"
   /\ stack' # stack)
  => LET reg == program[Top.state.pc + 1].reg
         after == stack'[Len(stack')].state
     IN /\ Len(stack') = Len(stack)
        /\ \A i \in 1..(Len(stack) - 1) : stack'[i] = stack[i]
        /\ \A r \in Registers \ {reg} : after.register[r] = Top.state.register[r]
        /\ after.inputs = Top.state.inputs

\* C30: in every state of a search or a plain run the inputs list of every
\* activation has one entry per Input passed, the k-th being the digit given
\* to the k-th Input, and an Add, Multiply, Divide, Modulo or Equal changes
\* only its destination register.
StateConsistent ==
  /\ [](\A i \in 1..Len(stack) : ConsistentFrame(i))
  /\ [][OnlyDestination]_vars
StateConsistentWitness ==
  /\ phase = "simple" /\ program = SUM
  /\ Top.state.pc = Len(program)
  /\ Top.state.inputs = <<3, 4>>
  /\ Top.state.register[W] = 7 /\ Top.state.register[X] = 4


====
